---------------------------- MODULE Spec2Model ----------------------------
(***************************************************************************)
(* Lazy graph-reduction evaluator of the galaxy combinator language.       *)
(*                                                                         *)
(* The model follows the functional variant of data.ts / builtins.ts       *)
(* (src/unnamed/part_001) and parser.ts (src/unnamed/part_000).            *)
(*                                                                         *)
(*  - An Expr is a record; JS closures are defunctionalised: a FuncValue   *)
(*    is the name of the built-in it came from plus the arguments captured *)
(*    so far, a Thunk's recipe () => Value is the name of the recipe plus  *)
(*    the expressions it closes over.                                      *)
(*  - Thunk objects live in `heap`; an Expr of kind "thunk" is a reference *)
(*    (its index) to one of them, so that sharing is visible.              *)
(*  - evaluate() is recursive and mutates thunks while it runs; it is      *)
(*    modelled as a machine with an explicit call stack, one frame per     *)
(*    running recipe.                                                      *)
(***************************************************************************)
EXTENDS Integers, Sequences, FiniteSets, TLC

(***************************************************************************)
(* Bounds of the model.                                                    *)
(***************************************************************************)
\* Thunk objects that may be allocated in one run of the model.
MaxThunks == 7
\* Nested recipe invocations the call stack holds before the host raises
\* RangeError (the JavaScript call-stack limit, scaled down).
MaxDepth == 5
\* Top-level evaluate requests are issued while evalCounter is below this.
MaxEvals == 2
\* Times the caller parses the query; each parse builds a graph of its own.
MaxRegs == 1

(***************************************************************************)
(* Values and expressions (part_001 18-48).                                *)
(***************************************************************************)
makeNumber(i) == [kind |-> "number", num |-> i, name |-> "", args |-> <<>>]

makeNil == [kind |-> "nil", num |-> 0, name |-> "", args |-> <<>>]

makeCons(car, cdr) == [kind |-> "cons", num |-> 0, name |-> "", args |-> <<car, cdr>>]

\* A FuncValue: the built-in `name` holding the arguments `args` applied so far.
FuncOf(name, args) == [kind |-> "func", num |-> 0, name |-> name, args |-> args]

\* makeFunc / makeFunc2 / makeFunc3 applied to a built-in: nothing captured yet.
makeFunc(name) == FuncOf(name, <<>>)

\* A reference to the Thunk object heap[id].
ThunkRef(id) == [kind |-> "thunk", num |-> id, name |-> "", args |-> <<>>]

\* The absent value of Thunk.cache (cache?: Value).
NoCache == [kind |-> "undefined", num |-> 0, name |-> "", args |-> <<>>]

\* A recipe (Thunk.func): which closure it is and what it closes over.
Recipe(op, args) == [op |-> op, args |-> args, env |-> 0, name |-> ""]

\* The recipe of makeReference's thunk: closes over env and name.
RefRecipe(env, name) == [op |-> "ref", args |-> <<>>, env |-> env, name |-> name]

\* The absent value of Thunk.func (func?: () => Value).
NoFunc == [op |-> "undefined", args |-> <<>>, env |-> 0, name |-> ""]

\* The result of a constructor call: the expression, the heap after the
\* call, and the message of the Error it threw ("" when it returned).
Ret(e, h) == [e |-> e, heap |-> h, err |-> ""]

Throw(msg, h) == [e |-> NoCache, heap |-> h, err |-> msg]

\* Not an outcome of the program: the model's thunk budget is used up.
HeapFull == "(model bound: MaxThunks)"

\* makeThunk(func): a fresh Thunk object holding the recipe and no cache.
makeThunk(func, h) ==
    IF Len(h) >= MaxThunks
    THEN Throw(HeapFull, h)
    ELSE Ret(ThunkRef(Len(h) + 1), Append(h, [func |-> func, cache |-> NoCache]))

theTrue == makeFunc("t")

theFalse == makeFunc("f")

\* A variant of makeBoolean with the two selectors exchanged.
makeBoolean_Inverted(b) == IF b THEN theFalse ELSE theTrue

makeBoolean(b) == IF b THEN theTrue ELSE theFalse

(***************************************************************************)
(* Built-ins: how many arguments each FuncValue takes before its body      *)
(* runs (makeFunc: 1, makeFunc2: 2, makeFunc3: 3).                          *)
(***************************************************************************)
Arity(name) ==
    CASE name \in {"inc", "dec", "neg", "i", "car", "cdr"} -> 1
      [] name \in {"add", "mul", "div", "eq", "lt", "t", "f", "cons", "bool"} -> 2
      [] name \in {"s", "c", "b"} -> 3
      [] OTHER -> 1

RECURSIVE makeApply(_, _)
RECURSIVE makeApply2(_, _, _)
RECURSIVE CallFunc(_, _, _)
RECURSIVE Builtin(_, _, _)

\* builtinC(a, b, c): makeApply(a, c, b).
builtinC(a, h) == makeApply(<<a[1], a[3], a[2]>>, h)

\* builtinB(a, b, c): makeApply(a, makeApply(b, c)); the inner call first.
builtinB(a, h) ==
    LET Outer(inner) ==
            IF inner.err # "" THEN inner
            ELSE makeApply(<<a[1], inner.e>>, inner.heap)
    IN  Outer(makeApply(<<a[2], a[3]>>, h))

\* The body of the built-in `name` on its full argument list a.
Builtin(name, a, h) ==
    CASE name = "t" -> Ret(a[1], h)
      [] name = "f" -> Ret(a[2], h)
      [] name = "cons" -> Ret(makeCons(a[1], a[2]), h)
      [] name = "i" -> Ret(a[1], h)
      [] name = "car" -> makeApply(<<a[1], makeBoolean(TRUE)>>, h)
      [] name = "cdr" -> makeApply(<<a[1], makeBoolean(FALSE)>>, h)
      [] name = "c" -> builtinC(a, h)
      [] name = "b" -> builtinB(a, h)
      [] name = "bool" -> Ret(makeBoolean(FALSE), h)
      [] OTHER -> makeThunk(Recipe(name, a), h)

\* lhs.func(rhs) for a FuncValue: the curried closures of makeFunc2 and
\* makeFunc3 collect arguments, the last one runs the built-in.
CallFunc(f, rhs, h) ==
    LET Call(a) ==
            IF Len(a) < Arity(f.name)
            THEN Ret(FuncOf(f.name, a), h)
            ELSE Builtin(f.name, a, h)
    IN  Call(Append(f.args, rhs))

\* A variant of the switch whose thunk case makes no new thunk: it puts
\* the apply recipe into the thunk lhs itself.
makeApply2_InPlace(lhs, rhs, h) ==
    CASE lhs.kind = "number" -> Throw("Invalid function call: number", h)
      [] lhs.kind = "nil" -> Ret(makeBoolean(TRUE), h)
      [] lhs.kind = "cons" -> makeApply(<<rhs, lhs.args[1], lhs.args[2]>>, h)
      [] lhs.kind = "func" -> CallFunc(lhs, rhs, h)
      [] lhs.kind = "thunk" ->
            Ret(lhs, [h EXCEPT ![lhs.num] =
                        [func |-> Recipe("apply", <<lhs, rhs>>), cache |-> NoCache]])

\* One step of makeApply's reduce: the switch on lhs.kind.
makeApply2(lhs, rhs, h) ==
    CASE lhs.kind = "number" -> Throw("Invalid function call: number", h)
      [] lhs.kind = "nil" -> Ret(makeBoolean(TRUE), h)
      [] lhs.kind = "cons" -> makeApply(<<rhs, lhs.args[1], lhs.args[2]>>, h)
      [] lhs.kind = "func" -> CallFunc(lhs, rhs, h)
      [] lhs.kind = "thunk" -> makeThunk(Recipe("apply", <<lhs, rhs>>), h)

\* makeApply(...args): args.reduce, left to right, no initial value.
makeApply(args, h) ==
    IF Len(args) = 1 THEN Ret(args[1], h)
    ELSE LET Rest(r) ==
                 IF r.err # "" THEN r
                 ELSE makeApply(<<r.e>> \o SubSeq(args, 3, Len(args)), r.heap)
         IN  Rest(makeApply2(args[1], args[2], h))

(***************************************************************************)
(* Environment (part_001 226-256).  An environment is its parent (0: none) *)
(* and its defs_ Map, kept as the sequence of its entries in insertion     *)
(* order.                                                                  *)
(***************************************************************************)
\* The not-found signal of lookup.
Null == [kind |-> "null", num |-> 0, name |-> "", args |-> <<>>]

\* Map.has(name) on a sequence of entries.
MapHas(m, name) == \E i \in DOMAIN m : m[i].name = name

\* Map.get(name): the entry's value, Null when there is none.
MapGet(m, name) ==
    IF MapHas(m, name)
    THEN m[CHOOSE i \in DOMAIN m : m[i].name = name].expr
    ELSE Null

\* Map.set(name, expr): a present key keeps its place and takes the value.
MapSet(m, name, expr) ==
    IF MapHas(m, name)
    THEN [i \in DOMAIN m |-> IF m[i].name = name THEN [name |-> name, expr |-> expr] ELSE m[i]]
    ELSE Append(m, [name |-> name, expr |-> expr])

\* A variant of define without the has() test: a second definition takes
\* the place of the first.
define_Overwrite(es, env, name, expr) ==
    [envs |-> [es EXCEPT ![env].defs = MapSet(@, name, expr)], err |-> ""]

\* Environment.define: throws when this environment has the name.
define(es, env, name, expr) ==
    IF MapHas(es[env].defs, name)
    THEN [envs |-> es, err |-> "Duplicated definition: " \o name]
    ELSE [envs |-> [es EXCEPT ![env].defs = MapSet(@, name, expr)], err |-> ""]

RECURSIVE lookup(_, _, _)
\* Environment.lookup: this environment, then the parent chain, then null.
lookup(es, env, name) ==
    LET Found(expr) ==
            IF expr # Null THEN expr
            ELSE IF es[env].parent # 0 THEN lookup(es, es[env].parent, name)
            ELSE Null
    IN  Found(MapGet(es[env].defs, name))

\* A variant of makeReference that resolves at once or not at all.
makeReference_Eager(es, env, name, h) ==
    LET Resolved(resolved) ==
            IF resolved # Null THEN Ret(resolved, h)
            ELSE Throw("Undefined reference " \o name, h)
    IN  Resolved(lookup(es, env, name))

\* makeReference: the binding when the name resolves now, else a thunk
\* that resolves it when forced.
makeReference(es, env, name, h) ==
    LET Resolved(resolved) ==
            IF resolved # Null THEN Ret(resolved, h)
            ELSE makeThunk(RefRecipe(env, name), h)
    IN  Resolved(lookup(es, env, name))

\* newStandardEnvironment (part_001 769-791), in the order of its defines:
\* the built-ins that are functions, then nil, then isnil.
StdNames ==
    <<"inc", "dec", "add", "mul", "div", "eq", "lt", "neg",
      "s", "c", "b", "t", "f", "i", "cons", "car", "cdr">>

stdEnv ==
    [parent |-> 0,
     defs |-> [i \in DOMAIN StdNames |-> [name |-> StdNames[i], expr |-> makeFunc(StdNames[i])]]
              \o <<[name |-> "nil", expr |-> makeNil],
                    [name |-> "isnil", expr |-> makeFunc("isnil")]>>]

\* The ids of the two environments: the standard one and a program's
\* environment created with new Environment(stdEnv).
StdEnvId == 1

UserEnvId == 2

(***************************************************************************)
(* Parser (part_000 27-57).  A program text is taken already split into    *)
(* its tokens; a token is a string.                                        *)
(***************************************************************************)
\* The tokens matching /^-?\d+$/ that the inputs use, with BigInt(token).
NumberOf ==
    [tok \in {"0", "1", "2", "-1", "7", "-7"} |->
        CASE tok = "0" -> 0 [] tok = "1" -> 1 [] tok = "2" -> 2 [] tok = "-1" -> 0 - 1
          [] tok = "7" -> 7 [] tok = "-7" -> 0 - 7]

PRet(e, rest, h) == [e |-> e, rest |-> rest, heap |-> h, err |-> ""]

PThrow(msg, h) == [e |-> NoCache, rest |-> <<>>, heap |-> h, err |-> msg]

RECURSIVE parseExprIter(_, _, _, _)
parseExprIter(es, env, tokens, h) ==
    LET token == tokens[1]
        rest  == SubSeq(tokens, 2, Len(tokens))
        \* The constructor's result a as the parser's, with the tokens left.
        Made(a, left) ==
            IF a.err # "" THEN PThrow(a.err, a.heap) ELSE PRet(a.e, left, a.heap)
        Rhs(l, r) ==
            IF r.err # "" THEN r
            ELSE Made(makeApply(<<l.e, r.e>>, r.heap), r.rest)
        Lhs(l) ==
            IF l.err # "" THEN l
            ELSE Rhs(l, parseExprIter(es, env, l.rest, l.heap))
    IN  IF token = "ap"
        THEN Lhs(parseExprIter(es, env, rest, h))
        ELSE IF token \in DOMAIN NumberOf
        THEN PRet(makeNumber(NumberOf[token]), rest, h)
        ELSE Made(makeReference(es, env, token, h), rest)

\* parseExpr: one expression and nothing after it.
parseExpr(es, env, tokens, h) ==
    LET Parsed(p) ==
            IF p.err # "" THEN Throw(p.err, p.heap)
            ELSE IF Len(p.rest) > 0 THEN Throw("Excess token", p.heap)
            ELSE Ret(p.e, p.heap)
    IN  Parsed(parseExprIter(es, env, tokens, h))

RECURSIVE parseDefinesFrom(_, _, _, _, _)
\* The loop of parseDefines over the lines, defs.set(name, parseExpr(...)).
parseDefinesFrom(es, env, lines, defs, h) ==
    IF lines = <<>> THEN [defs |-> defs, heap |-> h, err |-> ""]
    ELSE LET Parsed(p) ==
                 IF p.err # "" THEN [defs |-> <<>>, heap |-> p.heap, err |-> p.err]
                 ELSE parseDefinesFrom(es, env, Tail(lines),
                                       MapSet(defs, lines[1].name, p.e), p.heap)
         IN  Parsed(parseExpr(es, env, lines[1].tokens, h))

\* parseDefines(env, code): the Map of the lines' names to their expressions.
parseDefines(es, env, lines, h) == parseDefinesFrom(es, env, lines, <<>>, h)

(***************************************************************************)
(* The inputs: a program text (lines `name = expression`) and one          *)
(* expression the caller parses and evaluates, both in the prefix          *)
(* notation of the parser.                                                 *)
(***************************************************************************)
Line(name, tokens) == [name |-> name, tokens |-> tokens]

Codes ==
    { <<Line("g", <<"1">>)>>,
      <<Line("g", <<"nil">>)>>,
      <<Line("g", <<"ap", "ap", "cons", "1", "2">>)>>,
      <<Line("g", <<"ap", "inc", "1">>)>>,
      <<Line("h", <<"g">>), Line("g", <<"ap", "ap", "cons", "1", "h">>)>>,
      <<Line("g", <<"g">>)>>,
      <<Line("g", <<"h">>), Line("h", <<"g">>)>>,
      <<Line("g", <<"ap", "g", "1">>)>>,
      <<Line("t", <<"1">>), Line("g", <<"t">>)>> }

Queries ==
    { <<"g">>,
      <<"ap", "g", "t">>,
      <<"ap", "cdr", "g">>,
      <<"ap", "ap", "ap", "g", "h", "1", "h">>,
      <<"ap", "ap", "t", "1", "g">>,
      <<"ap", "ap", "f", "g", "1">>,
      <<"ap", "1", "g">>,
      <<"ap", "inc", "g">>,
      <<"ap", "ap", "add", "g", "g">>,
      <<"ap", "ap", "ap", "s", "add", "inc", "g">>,
      <<"ap", "ap", "ap", "c", "g", "1", "2">>,
      <<"ap", "ap", "ap", "b", "inc", "g", "1">>,
      <<"ap", "i", "g">> }

(***************************************************************************)
(* State.                                                                  *)
(***************************************************************************)
VARIABLES
    heap,         \* the Thunk objects: heap[id] = [func, cache]
    envs,         \* the Environment objects: envs[id] = [parent, defs]
    evalCounter,  \* export let evalCounter
    stack,        \* the recipes that are running, innermost last
    ctl,          \* what the machine does next
    code,         \* the program text of this run
    query,        \* the expression text of this run
    defs,         \* the Map parseDefines returned (<<>> before)
    regs,         \* the Exprs parseExpr returned for the query, oldest first
    last,         \* the caller's last call and its outcome
    snap,         \* history: the state at the caller's last evaluate call
    born,         \* history: born[id] is the recipe heap[id] was made with
    runs,         \* history: runs[id] counts the invocations of heap[id].func
    done,         \* history: done[id] counts those that returned
    first         \* history: the first value evaluate returned for heap[id],
                  \*          and runs[id] at that moment

vars == <<heap, envs, evalCounter, stack, ctl, code, query, defs, regs, last,
          snap, born, runs, done, first>>

Idle == [mode |-> "idle", e |-> NoCache, of |-> NoCache, err |-> ""]

\* evaluate(e) is being called.
CallEval(e) == [mode |-> "eval", e |-> e, of |-> e, err |-> ""]

\* The recipe of the innermost frame starts.
RunRecipe == [mode |-> "run", e |-> NoCache, of |-> NoCache, err |-> ""]

\* evaluate(of) returned v to its caller.
Returned(v, of) == [mode |-> "ret", e |-> v, of |-> of, err |-> ""]

\* The recipe of the innermost frame returned v (evaluate is at line 98).
RecipeValue(v) == [mode |-> "value", e |-> v, of |-> NoCache, err |-> ""]

\* An Error propagates.
Thrown(msg) == [mode |-> "throw", e |-> NoCache, of |-> NoCache, err |-> msg]

\* A running recipe: the thunk t it belongs to, the recipe, the number pc
\* of evaluate calls it has made, the argument `callee` of the last one
\* and the first operand's value x (builtinAdd's `const x`).  n0 is
\* history: runs[t] when evaluate(t) was called.  elems and cur are the
\* locals of exprToStaticData, whose activations are frames too.
Frame(t, func, n0) ==
    [t |-> t, func |-> func, pc |-> 0, callee |-> NoCache, x |-> NoCache, n0 |-> n0,
     elems |-> <<>>, cur |-> NoCache]

\* A call of the caller: the function, its argument, what it returned or
\* the message it threw, and for define the environment and the name.
Outcome(op, arg, e, err, env, name) ==
    [op |-> op, arg |-> arg, e |-> e, err |-> err, env |-> env, name |-> name]

Top == stack[Len(stack)]

Pop == SubSeq(stack, 1, Len(stack) - 1)

SetTop(f) == [stack EXCEPT ![Len(stack)] = f]

\* born after a step that leaves the heap h2: the thunks it allocated
\* enter with their recipes.
BornAfter(h2) ==
    [t \in 1..MaxThunks |->
        IF t \in DOMAIN heap THEN born[t]
        ELSE IF t \in DOMAIN h2 THEN h2[t].func
        ELSE NoFunc]

NoSnap == [heap |-> <<>>, evalCounter |-> 0, runs |-> [t \in 1..MaxThunks |-> 0]]

Init ==
    /\ heap = <<>>
    /\ envs = <<stdEnv, [parent |-> StdEnvId, defs |-> <<>>]>>
    /\ evalCounter = 0
    /\ stack = <<>>
    /\ ctl = Idle
    /\ code \in Codes
    /\ query \in Queries
    /\ defs = <<>>
    /\ regs = <<>>
    /\ last = Outcome("none", NoCache, NoCache, "", 0, "")
    /\ snap = NoSnap
    /\ born = [t \in 1..MaxThunks |-> NoFunc]
    /\ runs = [t \in 1..MaxThunks |-> 0]
    /\ done = [t \in 1..MaxThunks |-> 0]
    /\ first = [t \in 1..MaxThunks |-> [v |-> NoCache, n |-> 0]]

(***************************************************************************)
(* The caller: parses the program, defines its names, parses the query,    *)
(* asks for its value.  Calls are made one at a time (ctl = Idle).         *)
(***************************************************************************)
\* parseDefines(env, code) on the program's environment.
ParseDefines ==
    /\ ctl = Idle
    /\ defs = <<>>
    /\ LET Parsed(p) ==
               /\ p.err # HeapFull
               /\ heap' = p.heap
               /\ born' = BornAfter(p.heap)
               /\ defs' = p.defs
               /\ last' = Outcome("parseDefines", NoCache, NoCache, p.err, UserEnvId, "")
       IN  Parsed(parseDefines(envs, UserEnvId, code, heap))
    /\ UNCHANGED <<envs, evalCounter, stack, ctl, code, query, regs, snap, runs, done, first>>

\* env.define(name, expr) for one entry of the parsed Map (defineAll is a
\* run of these in the Map's order that stops at the first throw).
Define(env, i) ==
    /\ ctl = Idle
    /\ i \in DOMAIN defs
    /\ LET Defined(d) ==
               /\ envs' = d.envs
               /\ last' = Outcome("define", defs[i].expr, NoCache, d.err, env, defs[i].name)
       IN  Defined(define(envs, env, defs[i].name, defs[i].expr))
    /\ UNCHANGED <<heap, evalCounter, stack, ctl, code, query, defs, regs,
                   snap, born, runs, done, first>>

\* parseExpr(env, query) on the program's environment.
ParseExpr ==
    /\ ctl = Idle
    /\ Len(regs) < MaxRegs
    /\ LET Parsed(p) ==
               /\ p.err # HeapFull
               /\ heap' = p.heap
               /\ born' = BornAfter(p.heap)
               /\ regs' = IF p.err = "" THEN Append(regs, p.e) ELSE regs
               /\ last' = Outcome("parseExpr", NoCache, p.e, p.err, UserEnvId, "")
       IN  Parsed(parseExpr(envs, UserEnvId, query, heap))
    /\ UNCHANGED <<envs, evalCounter, stack, ctl, code, query, defs, snap, runs, done, first>>

\* The caller calls evaluate(regs[i]).
Evaluate(i) ==
    /\ ctl = Idle
    /\ i \in DOMAIN regs
    /\ evalCounter < MaxEvals
    /\ ctl' = CallEval(regs[i])
    /\ last' = Outcome("evaluate", regs[i], NoCache, "(running)", 0, "")
    /\ snap' = [heap |-> heap, evalCounter |-> evalCounter, runs |-> runs]
    /\ UNCHANGED <<heap, envs, evalCounter, stack, code, query, defs, regs,
                   born, runs, done, first>>

\* evaluate returned to the caller.
Finish ==
    /\ ctl.mode = "ret"
    /\ stack = <<>>
    /\ ctl' = Idle
    /\ last' = [last EXCEPT !.e = ctl.e, !.err = ""]
    /\ UNCHANGED <<heap, envs, evalCounter, stack, code, query, defs, regs,
                   snap, born, runs, done, first>>

\* The Error reached the caller.
Fail ==
    /\ ctl.mode = "throw"
    /\ stack = <<>>
    /\ ctl' = Idle
    /\ last' = [last EXCEPT !.err = ctl.err]
    /\ UNCHANGED <<heap, envs, evalCounter, stack, code, query, defs, regs,
                   snap, born, runs, done, first>>

(***************************************************************************)
(* evaluate (part_001 86-101), one action per path through it.             *)
(***************************************************************************)
\* Lines 87-89: not a thunk, returned as it is.
EvalValue ==
    /\ ctl.mode = "eval"
    /\ ctl.e.kind # "thunk"
    /\ ctl' = Returned(ctl.e, ctl.e)
    /\ UNCHANGED <<heap, envs, evalCounter, stack, code, query, defs, regs, last,
                   snap, born, runs, done, first>>

\* A variant of lines 90-92 that overlooks the cache: the recipe the thunk
\* was made with is called again.
EvalCached_Rerun ==
    /\ ctl.mode = "eval"
    /\ ctl.e.kind = "thunk"
    /\ heap[ctl.e.num].cache # NoCache
    /\ Len(stack) < MaxDepth
    /\ evalCounter' = evalCounter + 1
    /\ stack' = Append(stack, Frame(ctl.e.num, born[ctl.e.num], runs[ctl.e.num]))
    /\ runs' = [runs EXCEPT ![ctl.e.num] = @ + 1]
    /\ ctl' = RunRecipe
    /\ UNCHANGED <<heap, envs, code, query, defs, regs, last, snap, born, done, first>>

\* A variant of lines 90-92 that counts the hit as an evaluation.
EvalCached_Counting ==
    /\ ctl.mode = "eval"
    /\ ctl.e.kind = "thunk"
    /\ heap[ctl.e.num].cache # NoCache
    /\ ctl' = Returned(heap[ctl.e.num].cache, ctl.e)
    /\ evalCounter' = evalCounter + 1
    /\ UNCHANGED <<heap, envs, stack, code, query, defs, regs, last,
                   snap, born, runs, done, first>>

\* Lines 90-92: the cache is returned.
EvalCached ==
    /\ ctl.mode = "eval"
    /\ ctl.e.kind = "thunk"
    /\ heap[ctl.e.num].cache # NoCache
    /\ ctl' = Returned(heap[ctl.e.num].cache, ctl.e)
    /\ UNCHANGED <<heap, envs, evalCounter, stack, code, query, defs, regs, last,
                   snap, born, runs, done, first>>

\* A variant of lines 93-97 that leaves the counter alone.
EvalThunk_Uncounted ==
    /\ ctl.mode = "eval"
    /\ ctl.e.kind = "thunk"
    /\ heap[ctl.e.num].cache = NoCache
    /\ LET t == ctl.e.num
       IN  IF heap[t].func = NoFunc
           THEN /\ ctl' = Thrown("Broken thunk")
                /\ UNCHANGED <<stack, runs>>
           ELSE IF Len(stack) >= MaxDepth
           THEN /\ ctl' = Thrown("RangeError")
                /\ UNCHANGED <<stack, runs>>
           ELSE /\ stack' = Append(stack, Frame(t, heap[t].func, runs[t]))
                /\ runs' = [runs EXCEPT ![t] = @ + 1]
                /\ ctl' = RunRecipe
    /\ UNCHANGED <<heap, envs, evalCounter, code, query, defs, regs, last, snap, born,
                   done, first>>

\* Lines 93-97: no cache.  Without a recipe the thunk is broken; else the
\* counter is incremented and the recipe is called.  The call stack is
\* finite: at MaxDepth running recipes the call raises RangeError.
EvalThunk ==
    /\ ctl.mode = "eval"
    /\ ctl.e.kind = "thunk"
    /\ heap[ctl.e.num].cache = NoCache
    /\ LET t == ctl.e.num
       IN  IF heap[t].func = NoFunc
           THEN /\ ctl' = Thrown("Broken thunk")
                /\ UNCHANGED <<evalCounter, stack, runs>>
           ELSE IF Len(stack) >= MaxDepth
           THEN /\ ctl' = Thrown("RangeError")
                /\ UNCHANGED <<evalCounter, stack, runs>>
           ELSE /\ evalCounter' = evalCounter + 1
                /\ stack' = Append(stack, Frame(t, heap[t].func, runs[t]))
                /\ runs' = [runs EXCEPT ![t] = @ + 1]
                /\ ctl' = RunRecipe
    /\ UNCHANGED <<heap, envs, code, query, defs, regs, last, snap, born, done, first>>

\* A variant of lines 98-99 that stores the value and keeps the recipe.
StoreCache_KeepRecipe(h, t, v) == [h EXCEPT ![t].cache = v]

\* A variant of lines 98-99 that forgets the value: nothing is stored.
StoreCache_NoMemo(h, t, v) == h

\* Lines 98-99: expr.cache = value; expr.func = undefined.
StoreCache(h, t, v) == [h EXCEPT ![t] = [func |-> NoFunc, cache |-> v]]

\* Lines 98-100: the recipe returned; the value is cached, the recipe
\* dropped, the value returned.
EvalReturn ==
    /\ ctl.mode = "value"
    /\ heap' = StoreCache(heap, Top.t, ctl.e)
    /\ stack' = Pop
    /\ done' = [done EXCEPT ![Top.t] = @ + 1]
    /\ first' = IF done[Top.t] = 0
                THEN [first EXCEPT ![Top.t] = [v |-> ctl.e, n |-> runs[Top.t]]]
                ELSE first
    /\ ctl' = Returned(ctl.e, ThunkRef(Top.t))
    /\ UNCHANGED <<envs, evalCounter, code, query, defs, regs, last, snap, born, runs>>

\* A variant of the propagation in which evaluate marks the thunk it leaves
\* as consumed: the recipe is dropped on the way out.
Unwind_DropsRecipe ==
    /\ ctl.mode = "throw"
    /\ stack # <<>>
    /\ stack' = Pop
    /\ heap' = IF Top.t = 0 THEN heap ELSE [heap EXCEPT ![Top.t].func = NoFunc]
    /\ UNCHANGED <<envs, evalCounter, ctl, code, query, defs, regs, last,
                   snap, born, runs, done, first>>

\* An Error leaves a running recipe and the evaluate call that called it:
\* nothing catches it.
Unwind ==
    /\ ctl.mode = "throw"
    /\ stack # <<>>
    /\ stack' = Pop
    /\ UNCHANGED <<heap, envs, evalCounter, ctl, code, query, defs, regs, last,
                   snap, born, runs, done, first>>

(***************************************************************************)
(* The recipes.  A frame's pc counts the evaluate calls its recipe has     *)
(* made; a constructor call that throws makes the recipe throw.            *)
(***************************************************************************)
\* The recipe calls evaluate(e), its pc-th call.
CallFrom(e, pc) ==
    /\ ctl' = CallEval(e)
    /\ stack' = SetTop([Top EXCEPT !.pc = pc, !.callee = e])

\* The recipe made a constructor call with result r and evaluates what it
\* returned.
EvalResult(r, pc) ==
    /\ r.err # HeapFull
    /\ heap' = r.heap
    /\ born' = BornAfter(r.heap)
    /\ IF r.err # ""
       THEN /\ ctl' = Thrown(r.err)
            /\ UNCHANGED stack
       ELSE CallFrom(r.e, pc)

\* A variant of apply's switch that hands the pair's fields over in the
\* other order.
applyDispatch_Swapped(func, rhs, h) ==
    CASE func.kind = "cons" -> makeApply(<<rhs, func.args[2], func.args[1]>>, h)
      [] func.kind = "func" -> CallFunc(func, rhs, h)
      [] OTHER -> Throw("Invalid function call: number", h)

\* A variant of apply's switch without the number case: a number falls
\* through to the answer for nil.
applyDispatch_NumberAsNil(func, rhs, h) ==
    CASE func.kind = "cons" -> makeApply(<<rhs, func.args[1], func.args[2]>>, h)
      [] func.kind = "func" -> CallFunc(func, rhs, h)
      [] OTHER -> Ret(makeBoolean(TRUE), h)

\* apply's switch on the kind of the evaluated lhs (lines 105-114): the
\* constructor call whose result apply evaluates, for cons and func.
applyDispatch(func, rhs, h) ==
    CASE func.kind = "cons" -> makeApply(<<rhs, func.args[1], func.args[2]>>, h)
      [] func.kind = "func" -> CallFunc(func, rhs, h)
      [] OTHER -> Throw("Invalid function call: number", h)

\* () => apply(lhs, rhs)  (lines 103-115, 131).
ApplyRecipe ==
    /\ stack # <<>>
    /\ Top.func.op = "apply"
    /\ LET lhs == Top.func.args[1]
           rhs == Top.func.args[2]
       IN  \/ /\ ctl.mode = "run"
              /\ CallFrom(lhs, 1)
              /\ UNCHANGED <<heap, born>>
           \/ /\ ctl.mode = "ret"
              /\ Top.pc = 1
              /\ IF ctl.e.kind = "nil"
                 THEN /\ ctl' = RecipeValue(makeBoolean(TRUE))
                      /\ UNCHANGED <<heap, born, stack>>
                 ELSE EvalResult(applyDispatch(ctl.e, rhs, heap), 2)
           \/ /\ ctl.mode = "ret"
              /\ Top.pc = 2
              /\ ctl' = RecipeValue(ctl.e)
              /\ UNCHANGED <<heap, born, stack>>
    /\ UNCHANGED <<envs, evalCounter, code, query, defs, regs, last, snap, runs, done, first>>

\* The recipe of makeReference's thunk (lines 141-147).
ReferenceRecipe ==
    /\ stack # <<>>
    /\ Top.func.op = "ref"
    /\ \/ /\ ctl.mode = "run"
          /\ LET Resolved(resolved) ==
                     IF resolved = Null
                     THEN /\ ctl' = Thrown("Undefined reference " \o Top.func.name)
                          /\ UNCHANGED stack
                     ELSE CallFrom(resolved, 1)
             IN  Resolved(lookup(envs, Top.func.env, Top.func.name))
       \/ /\ ctl.mode = "ret"
          /\ Top.pc = 1
          /\ ctl' = RecipeValue(ctl.e)
          /\ UNCHANGED stack
    /\ UNCHANGED <<heap, envs, evalCounter, code, query, defs, regs, last,
                   snap, born, runs, done, first>>

\* A variant of BigInt division that rounds toward minus infinity.
Quot_Floor(x, y) == IF y > 0 THEN x \div y ELSE (0 - x) \div (0 - y)

\* BigInt division: the quotient truncated toward zero.
Quot(x, y) ==
    LET ax == IF x < 0 THEN 0 - x ELSE x
        ay == IF y < 0 THEN 0 - y ELSE y
    IN  IF (x < 0) # (y < 0) THEN 0 - (ax \div ay) ELSE ax \div ay

\* What builtinInc, builtinDec, builtinNeg return on the evaluated operand.
Unary(op, x) ==
    IF x.kind # "number" THEN Thrown(op \o ": wrong types: " \o x.kind)
    ELSE CASE op = "inc" -> RecipeValue(makeNumber(x.num + 1))
           [] op = "dec" -> RecipeValue(makeNumber(x.num - 1))
           [] op = "neg" -> RecipeValue(makeNumber(0 - x.num))

\* What builtinAdd, Mul, Div, Eq, Lt return on the evaluated operands.
Binary(op, x, y) ==
    IF x.kind # "number" \/ y.kind # "number"
    THEN Thrown(op \o ": wrong types: " \o x.kind \o " " \o y.kind)
    ELSE CASE op = "add" -> RecipeValue(makeNumber(x.num + y.num))
           [] op = "mul" -> RecipeValue(makeNumber(x.num * y.num))
           [] op = "div" -> IF y.num = 0 THEN Thrown("RangeError")
                            ELSE RecipeValue(makeNumber(Quot(x.num, y.num)))
           [] op = "eq" -> RecipeValue(makeBoolean(x.num = y.num))
           [] op = "lt" -> RecipeValue(makeBoolean(x.num < y.num))

\* The recipes of builtinInc, builtinDec, builtinNeg (part_001 662-680, 737-745).
UnaryRecipe ==
    /\ stack # <<>>
    /\ Top.func.op \in {"inc", "dec", "neg"}
    /\ \/ /\ ctl.mode = "run"
          /\ CallFrom(Top.func.args[1], 1)
       \/ /\ ctl.mode = "ret"
          /\ Top.pc = 1
          /\ ctl' = Unary(Top.func.op, ctl.e)
          /\ UNCHANGED stack
    /\ UNCHANGED <<heap, envs, evalCounter, code, query, defs, regs, last,
                   snap, born, runs, done, first>>

\* The recipes of builtinAdd, Mul, Div, Eq, Lt (part_001 682-735): both
\* operands are evaluated, a then b, before the types are checked.
BinaryRecipe ==
    /\ stack # <<>>
    /\ Top.func.op \in {"add", "mul", "div", "eq", "lt"}
    /\ \/ /\ ctl.mode = "run"
          /\ CallFrom(Top.func.args[1], 1)
       \/ /\ ctl.mode = "ret"
          /\ Top.pc = 1
          /\ ctl' = CallEval(Top.func.args[2])
          /\ stack' = SetTop([Top EXCEPT !.pc = 2, !.callee = Top.func.args[2], !.x = ctl.e])
       \/ /\ ctl.mode = "ret"
          /\ Top.pc = 2
          /\ ctl' = Binary(Top.func.op, Top.x, ctl.e)
          /\ UNCHANGED stack
    /\ UNCHANGED <<heap, envs, evalCounter, code, query, defs, regs, last,
                   snap, born, runs, done, first>>

\* builtinS's graph: makeApply(makeApply(a, c), makeApply(b, c)).
builtinS(a, h) ==
    LET Both(ac, bc) ==
            IF bc.err # "" THEN bc
            ELSE makeApply(<<ac.e, bc.e>>, bc.heap)
        First(ac) ==
            IF ac.err # "" THEN ac
            ELSE Both(ac, makeApply(<<a[2], a[3]>>, ac.heap))
    IN  First(makeApply(<<a[1], a[3]>>, h))

\* The recipe of builtinS (part_001 747-749).
SRecipe ==
    /\ stack # <<>>
    /\ Top.func.op = "s"
    /\ \/ /\ ctl.mode = "run"
          /\ EvalResult(builtinS(Top.func.args, heap), 1)
       \/ /\ ctl.mode = "ret"
          /\ Top.pc = 1
          /\ ctl' = RecipeValue(ctl.e)
          /\ UNCHANGED <<heap, born, stack>>
    /\ UNCHANGED <<envs, evalCounter, code, query, defs, regs, last, snap, runs, done, first>>

Next ==
    \/ ParseDefines
    \/ \E env \in DOMAIN envs, i \in DOMAIN defs : Define(env, i)
    \/ ParseExpr
    \/ \E i \in DOMAIN regs : Evaluate(i)
    \/ Finish
    \/ Fail
    \/ EvalValue
    \/ EvalCached
    \/ EvalThunk
    \/ EvalReturn
    \/ Unwind
    \/ ApplyRecipe
    \/ ReferenceRecipe
    \/ UnaryRecipe
    \/ BinaryRecipe
    \/ SRecipe

Spec == Init /\ [][Next]_vars

(***************************************************************************)
(* isNil, isNilSlow and exprToStaticData (part_001 157-197, 259-299).      *)
(* Their activations are frames of the same call stack, with t = 0: they   *)
(* belong to no thunk.                                                     *)
(***************************************************************************)
\* makeCar(e), makeCdr(e) (lines 157-163).
makeCar(e, h) == makeApply(<<e, makeBoolean(TRUE)>>, h)

makeCdr(e, h) == makeApply(<<e, makeBoolean(FALSE)>>, h)

\* A JavaScript boolean, the result of isNil.
Boolean(b) ==
    [kind |-> "boolean", num |-> 0, name |-> IF b THEN "true" ELSE "false", args |-> <<>>]

\* StaticData (lines 259-275); `name` holds the dataType, `args` the elems
\* of a list and the car and cdr of a cons.
NumberData(n) == [kind |-> "data", num |-> n, name |-> "number", args |-> <<>>]

ListData(elems) == [kind |-> "data", num |-> 0, name |-> "list", args |-> elems]

ConsData(car, cdr) == [kind |-> "data", num |-> 0, name |-> "cons", args |-> <<car, cdr>>]

\* isNil returned b to its caller.
Answered(b) == [mode |-> "bool", e |-> Boolean(b), of |-> NoCache, err |-> ""]

\* exprToStaticData returned d to its caller.
Converted(d) == [mode |-> "data", e |-> d, of |-> NoCache, err |-> ""]

\* isNil(e) or exprToStaticData(e) is called from the frames `base`: the
\* activation is pushed and makes its first call, evaluate(e) (lines 168,
\* 278).  The call stack is finite, as in EvalThunk.
CallNative(base, op, e) ==
    IF Len(base) >= MaxDepth
    THEN /\ ctl' = Thrown("RangeError")
         /\ stack' = base
    ELSE /\ ctl' = CallEval(e)
         /\ stack' = Append(base, [Frame(0, Recipe(op, <<e>>), 0) EXCEPT !.pc = 1, !.callee = e])

\* isNilSlow's `bool` (line 182): makeFunc2((a, b) => makeBoolean(false)).
theBool == makeFunc("bool")

\* isNilSlow's sentinels (lines 183-184).
trueValue == 123

falseValue == 456

\* The expression isNilSlow evaluates (line 185).
isNilSlowProbe(value, h) ==
    makeApply(<<value, theBool, makeNumber(trueValue), makeNumber(falseValue)>>, h)

\* A variant of lines 186-196 that takes every result but the sentinel of
\* nil for a pair.
isNilSlowResult_Lenient(result) ==
    IF result.kind = "number" /\ result.num = trueValue THEN Answered(TRUE)
    ELSE Answered(FALSE)

\* A variant of lines 186-196 with the sentinels exchanged.
isNilSlowResult_Exchanged(result) ==
    IF result.kind # "number" THEN Thrown("Not nil/cons")
    ELSE CASE result.num = falseValue -> Answered(TRUE)
           [] result.num = trueValue -> Answered(FALSE)
           [] OTHER -> Thrown("Not nil/cons")

\* Lines 186-196: what isNilSlow makes of the probe's result.
isNilSlowResult(result) ==
    IF result.kind # "number" THEN Thrown("Not nil/cons")
    ELSE CASE result.num = trueValue -> Answered(TRUE)
           [] result.num = falseValue -> Answered(FALSE)
           [] OTHER -> Thrown("Not nil/cons")

\* isNil (lines 167-179) with isNilSlow (lines 181-197) from the return of
\* evaluate(expr) on: pc 1 is the switch on the value's kind, pc 2 the
\* return of the probe's evaluate.  The frame's x is isNilSlow's `value`.
IsNil ==
    /\ stack # <<>>
    /\ Top.func.op = "isNil"
    /\ ctl.mode = "ret"
    /\ \/ /\ Top.pc = 1
          /\ ctl.e.kind # "func"
          /\ ctl' = Answered(ctl.e.kind = "nil")
          /\ stack' = Pop
          /\ UNCHANGED <<heap, born>>
       \/ /\ Top.pc = 1
          /\ ctl.e.kind = "func"
          /\ LET Probe(r) ==
                     /\ r.err # HeapFull
                     /\ heap' = r.heap
                     /\ born' = BornAfter(r.heap)
                     /\ IF r.err # ""
                        THEN /\ ctl' = Thrown(r.err)
                             /\ UNCHANGED stack
                        ELSE /\ ctl' = CallEval(r.e)
                             /\ stack' = SetTop([Top EXCEPT !.pc = 2, !.callee = r.e,
                                                            !.x = ctl.e])
             IN  Probe(isNilSlowProbe(ctl.e, heap))
       \/ /\ Top.pc = 2
          /\ ctl' = isNilSlowResult(ctl.e)
          /\ stack' = IF isNilSlowResult(ctl.e).mode = "throw" THEN stack ELSE Pop
          /\ UNCHANGED <<heap, born>>
    /\ UNCHANGED <<envs, evalCounter, code, query, defs, regs, last, snap, runs, done, first>>

\* The recipe of builtinIsNil (part_001 763-767): makeBoolean(isNil(a)).
IsNilRecipe ==
    /\ stack # <<>>
    /\ Top.func.op = "isnil"
    /\ \/ /\ ctl.mode = "run"
          /\ CallNative(SetTop([Top EXCEPT !.pc = 1]), "isNil", Top.func.args[1])
       \/ /\ ctl.mode = "bool"
          /\ Top.pc = 1
          /\ ctl' = RecipeValue(makeBoolean(ctl.e.name = "true"))
          /\ UNCHANGED stack
    /\ UNCHANGED <<heap, envs, evalCounter, code, query, defs, regs, last,
                   snap, born, runs, done, first>>

\* elems.reduceRight((cdr, car) => ({dataType: 'cons', car, cdr})) with no
\* initial value (line 290): the accumulator starts as the last element and
\* takes the others from the right.
RECURSIVE reduceRightFrom(_, _, _)
reduceRightFrom(elems, i, cdr) ==
    IF i = 0 THEN cdr
    ELSE reduceRightFrom(elems, i - 1, ConsData(elems[i], cdr))

\* A variant of line 290 that folds from the left.
reduceRight_Left(elems) ==
    LET RECURSIVE Fold(_, _)
        Fold(i, acc) == IF i > Len(elems) THEN acc
                        ELSE Fold(i + 1, ConsData(acc, elems[i]))
    IN  Fold(2, elems[1])

reduceRight(elems) == reduceRightFrom(elems, Len(elems) - 1, elems[Len(elems)])

\* The head of exprToStaticData's loop (lines 287-292) in the activation
\* `frame`: a number ends the chain and is converted by a call of its own,
\* anything else is asked whether it is nil.
LoopHead(frame) ==
    IF frame.cur.kind = "number"
    THEN CallNative(SetTop([frame EXCEPT !.pc = 5]), "exprToStaticData", frame.cur)
    ELSE CallNative(SetTop([frame EXCEPT !.pc = 2]), "isNil", frame.cur)

\* exprToStaticData (lines 277-299) from the return of evaluate(expr) on.
\* pc 1: evaluate(expr) returned; 2: isNil(cur) answered; 3: the head's
\* conversion returned; 4: evaluate(makeCdr(cur)) returned; 5: the
\* conversion of the number that ends the chain returned.
ExprToStaticData ==
    /\ stack # <<>>
    /\ Top.func.op = "exprToStaticData"
    /\ \/ /\ ctl.mode = "ret"
          /\ Top.pc = 1
          /\ IF ctl.e.kind = "number"
             THEN /\ ctl' = Converted(NumberData(ctl.e.num))
                  /\ stack' = Pop
             ELSE LoopHead([Top EXCEPT !.cur = ctl.e, !.elems = <<>>])
          /\ UNCHANGED <<heap, born>>
       \/ /\ ctl.mode = "bool"
          /\ Top.pc = 2
          /\ IF ctl.e.name = "true"
             THEN /\ ctl' = Converted(ListData(Top.elems))
                  /\ stack' = Pop
                  /\ UNCHANGED <<heap, born>>
             ELSE LET Car(r) ==
                          /\ r.err # HeapFull
                          /\ heap' = r.heap
                          /\ born' = BornAfter(r.heap)
                          /\ IF r.err # ""
                             THEN /\ ctl' = Thrown(r.err)
                                  /\ UNCHANGED stack
                             ELSE CallNative(SetTop([Top EXCEPT !.pc = 3]),
                                             "exprToStaticData", r.e)
                  IN  Car(makeCar(Top.cur, heap))
       \/ /\ ctl.mode = "data"
          /\ Top.pc = 3
          /\ LET Cdr(r) ==
                     /\ r.err # HeapFull
                     /\ heap' = r.heap
                     /\ born' = BornAfter(r.heap)
                     /\ IF r.err # ""
                        THEN /\ ctl' = Thrown(r.err)
                             /\ UNCHANGED stack
                        ELSE /\ ctl' = CallEval(r.e)
                             /\ stack' = SetTop([Top EXCEPT !.pc = 4, !.callee = r.e,
                                                            !.elems = Append(@, ctl.e)])
             IN  Cdr(makeCdr(Top.cur, heap))
       \/ /\ ctl.mode = "ret"
          /\ Top.pc = 4
          /\ LoopHead([Top EXCEPT !.cur = ctl.e])
          /\ UNCHANGED <<heap, born>>
       \/ /\ ctl.mode = "data"
          /\ Top.pc = 5
          /\ ctl' = Converted(reduceRight(Append(Top.elems, ctl.e)))
          /\ stack' = Pop
          /\ UNCHANGED <<heap, born>>
    /\ UNCHANGED <<envs, evalCounter, code, query, defs, regs, last, snap, runs, done, first>>

\* The caller calls isNil(regs[i]) or exprToStaticData(regs[i]) (bench.ts
\* 12-14 reaches both through its result list).
Call(op, i) ==
    /\ ctl = Idle
    /\ i \in DOMAIN regs
    /\ evalCounter < MaxEvals
    /\ CallNative(<<>>, op, regs[i])
    /\ last' = Outcome(op, regs[i], NoCache, "(running)", 0, "")
    /\ snap' = [heap |-> heap, evalCounter |-> evalCounter, runs |-> runs]
    /\ UNCHANGED <<heap, envs, evalCounter, code, query, defs, regs,
                   born, runs, done, first>>

\* isNil or exprToStaticData returned to the caller.
Return ==
    /\ ctl.mode \in {"bool", "data"}
    /\ stack = <<>>
    /\ ctl' = Idle
    /\ last' = [last EXCEPT !.e = ctl.e, !.err = ""]
    /\ UNCHANGED <<heap, envs, evalCounter, stack, code, query, defs, regs,
                   snap, born, runs, done, first>>

\* The programs and the expressions of the runs that inspect data.
CodesData ==
    { <<Line("g", <<"ap", "ap", "cons", "1", "ap", "ap", "cons", "-1",
                    "ap", "ap", "cons", "0", "nil">>)>>,
      <<Line("g", <<"ap", "ap", "cons", "ap", "ap", "cons", "1", "nil",
                                          "ap", "ap", "cons", "2", "0">>)>>,
      <<Line("g", <<"ap", "ap", "cons", "h", "nil">>), Line("h", <<"ap", "inc", "0">>)>>,
      <<Line("g", <<"nil">>)>>,
      <<Line("g", <<"ap", "t", "t">>)>>,
      <<Line("g", <<"ap", "ap", "c", "ap", "ap", "c", "i", "1", "2">>)>>,
      <<Line("g", <<"ap", "t", "1">>)>>,
      <<Line("g", <<"inc">>)>>,
      <<Line("g", <<"t">>)>>,
      <<Line("g", <<"ap", "t", "ap", "t", "ap", "t", "7">>)>>,
      <<Line("g", <<"7">>)>>,
      <<Line("g", <<"-7">>)>> }

QueriesData ==
    { <<"g">>,
      <<"ap", "isnil", "g">>,
      <<"ap", "g", "1">>,
      <<"ap", "ap", "div", "g", "2">>,
      <<"ap", "ap", "div", "g", "-1">>,
      <<"ap", "ap", "add", "g", "2">>,
      <<"ap", "ap", "eq", "g", "7">>,
      <<"ap", "ap", "ap", "s", "add", "inc", "g">> }

InitData ==
    /\ heap = <<>>
    /\ envs = <<stdEnv, [parent |-> StdEnvId, defs |-> <<>>]>>
    /\ evalCounter = 0
    /\ stack = <<>>
    /\ ctl = Idle
    /\ code \in CodesData
    /\ query \in QueriesData
    /\ defs = <<>>
    /\ regs = <<>>
    /\ last = Outcome("none", NoCache, NoCache, "", 0, "")
    /\ snap = NoSnap
    /\ born = [t \in 1..MaxThunks |-> NoFunc]
    /\ runs = [t \in 1..MaxThunks |-> 0]
    /\ done = [t \in 1..MaxThunks |-> 0]
    /\ first = [t \in 1..MaxThunks |-> [v |-> NoCache, n |-> 0]]

NextData ==
    \/ ParseDefines
    \/ \E i \in DOMAIN defs : Define(UserEnvId, i)
    \/ ParseExpr
    \/ \E i \in DOMAIN regs : Evaluate(i)
    \/ \E i \in DOMAIN regs : Call("isNil", i)
    \/ \E i \in DOMAIN regs : Call("exprToStaticData", i)
    \/ Finish
    \/ Return
    \/ Fail
    \/ EvalValue
    \/ EvalCached
    \/ EvalThunk
    \/ EvalReturn
    \/ Unwind
    \/ ApplyRecipe
    \/ ReferenceRecipe
    \/ UnaryRecipe
    \/ BinaryRecipe
    \/ SRecipe
    \/ IsNilRecipe
    \/ IsNil
    \/ ExprToStaticData

SpecData == InitData /\ [][NextData]_vars

(***************************************************************************)
(* Properties.                                                             *)
(***************************************************************************)
\* The thunks made so far.
Thunks == DOMAIN heap

\* The caller's last call was evaluate and it has returned a value.
EvaluateReturned == ctl = Idle /\ last.op = "evaluate" /\ last.err = ""

\* The caller's last call was evaluate and it has thrown.
EvaluateThrew ==
    ctl = Idle /\ last.op = "evaluate" /\ last.err \notin {"", "(running)"}

\* C1, as stated: the recipe of every thunk is invoked at most once in
\* total, whatever the evaluate calls that reach it.
C1_InvokedAtMostOnce == \A t \in Thunks : runs[t] <= 1

\* C1, amended: the recipe of every thunk returns at most once, and once it
\* has returned it is never invoked again, from however many parents the
\* thunk is reached.  (Invocations that threw, or that are still running,
\* do not prevent another one.)
C1_ReturnsAtMostOnce ==
    \A t \in Thunks :
        /\ done[t] <= 1
        /\ done[t] = 1 => runs[t] = first[t].n /\ heap[t].cache = first[t].v

\* C1, the case: a thunk that both operands of an add recipe point to; the
\* recipe has evaluated both and returned, the shared thunk ran once.
C1_SharedOperandForced ==
    \E t \in Thunks :
        /\ born[t].op = "add"
        /\ born[t].args[1] = born[t].args[2]
        /\ born[t].args[1].kind = "thunk"
        /\ done[t] = 1
        /\ runs[born[t].args[1].num] = 1
        /\ done[born[t].args[1].num] = 1

\* C2: every evaluate of a thunk that returns, returns the value the first
\* one returned; the first one incremented the counter once for the thunk
\* and the later ones not at all; and an evaluate of a Value or of a cached
\* thunk returns it in one step that changes neither evalCounter nor any
\* thunk.
C2_Idempotent ==
    /\ [](ctl.mode = "ret" /\ ctl.of.kind = "thunk"
            => /\ ctl.e = first[ctl.of.num].v
               /\ runs[ctl.of.num] = first[ctl.of.num].n)
    /\ [](ctl.mode = "value" => runs[Top.t] = Top.n0 + 1)
    /\ [](EvaluateReturned
          /\ (last.arg.kind # "thunk" \/ snap.heap[last.arg.num].cache # NoCache)
            => /\ heap = snap.heap
               /\ evalCounter = snap.evalCounter
               /\ last.e = IF last.arg.kind = "thunk"
                           THEN snap.heap[last.arg.num].cache ELSE last.arg)
    /\ [][ctl.mode = "eval"
          /\ (ctl.e.kind # "thunk" \/ heap[ctl.e.num].cache # NoCache)
            => /\ heap' = heap
               /\ evalCounter' = evalCounter
               /\ ctl'.mode = "ret"
               /\ ctl'.e = IF ctl.e.kind = "thunk" THEN heap[ctl.e.num].cache
                           ELSE ctl.e]_vars

\* C2, the case: the caller's second evaluate of a thunk has returned; the
\* first one ran the recipe, this one found the cache.
C2_ForcedTwice ==
    /\ EvaluateReturned
    /\ last.arg.kind = "thunk"
    /\ snap.heap[last.arg.num].cache # NoCache
    /\ runs[last.arg.num] = 1
    /\ evalCounter = snap.evalCounter
    /\ last.e = first[last.arg.num].v
\* C3: in every reachable state every thunk has its recipe and no cache, or
\* a cache and no recipe; a step changes a thunk only from the first to the
\* second, and a thunk in the second is never changed again; evaluate never
\* throws 'Broken thunk'.
C3_RecipeXorCache ==
    /\ [](\A t \in Thunks :
            \/ heap[t].func = born[t] /\ born[t] # NoFunc /\ heap[t].cache = NoCache
            \/ heap[t].func = NoFunc /\ heap[t].cache # NoCache)
    /\ [](ctl.err # "Broken thunk" /\ last.err # "Broken thunk")
    /\ [][\A t \in Thunks :
            /\ t \in DOMAIN heap'
            /\ heap[t].cache # NoCache => heap'[t] = heap[t]
            /\ heap'[t] # heap[t] => heap[t].cache = NoCache /\ heap'[t].cache # NoCache]_vars

\* C3, the case: the caller has asked again for a thunk that had made the
\* transition, while another thunk still holds its recipe.
C3_BothStates ==
    /\ EvaluateReturned
    /\ last.arg.kind = "thunk"
    /\ last.arg.num \in DOMAIN snap.heap
    /\ snap.heap[last.arg.num].cache # NoCache
    /\ heap[last.arg.num].func = NoFunc
    /\ done[last.arg.num] = 1
    /\ \E u \in Thunks : heap[u].func # NoFunc /\ heap[u].cache = NoCache

\* C4, as stated: a recipe is never re-entered for its node while it is
\* still running (no thunk has two frames on the call stack).
C4_NeverReentered ==
    \A i, j \in DOMAIN stack : i # j => stack[i].t # stack[j].t

\* C4, amended: a recipe that is re-entered while it is running never
\* returns, and an evaluate request that returns has invoked the recipe of
\* each thunk at most once, exactly once for those it has cached.  (A
\* binding that reaches itself only through a cons field or an argument
\* resolves this way; an unguarded cycle such as g = g re-enters the
\* reference recipe until the call stack is exhausted.)
C4_ReenteredNeverReturns ==
    /\ ctl.mode = "value" =>
           \A i \in 1..(Len(stack) - 1) : stack[i].t # Top.t
    /\ EvaluateReturned =>
           \A t \in Thunks :
               /\ runs[t] - snap.runs[t] <= 1
               /\ runs[t] > snap.runs[t] => done[t] = 1
               /\ t \in DOMAIN snap.heap /\ snap.heap[t].cache = NoCache
                  /\ heap[t].cache # NoCache => runs[t] = snap.runs[t] + 1

\* C4, the case: forcing a reference thunk has returned a cons whose cdr is
\* that very thunk (h = g, g = ap ap cons 1 h); its recipe ran once.
C4_GuardedCycleResolved ==
    /\ EvaluateReturned
    /\ last.arg.kind = "thunk"
    /\ born[last.arg.num].op = "ref"
    /\ last.e.kind = "cons"
    /\ last.e.args[2] = last.arg
    /\ runs[last.arg.num] = 1
\* The expressions the program holds over the heap h: its thunks, what is
\* cached in them, and what the parser returned (rs for the query, ds for
\* the program).
Held(h, rs, ds) ==
    {ThunkRef(t) : t \in DOMAIN h}
      \cup {h[t].cache : t \in {u \in DOMAIN h : h[u].cache # NoCache}}
      \cup {rs[i] : i \in DOMAIN rs}
      \cup {ds[i].expr : i \in DOMAIN ds}

\* makeApply(lhs, rhs) on the heap h makes a new thunk with the recipe
\* apply(lhs, rhs) and leaves every thunk of h as it is.
MakesApplyThunk(lhs, rhs, h) ==
    makeApply(<<lhs, rhs>>, h)
      = Ret(ThunkRef(Len(h) + 1),
            Append(h, [func |-> Recipe("apply", <<lhs, rhs>>), cache |-> NoCache]))

\* makeApply(lhs, rhs) on the heap h changes no thunk of h.
KeepsThunks(lhs, rhs, h) ==
    LET Kept(r) == \A t \in DOMAIN h : t \in DOMAIN r.heap /\ r.heap[t] = h[t]
    IN  Kept(makeApply(<<lhs, rhs>>, h))

\* C5: makeApply(lhs, rhs) with lhs an uncached thunk returns a new thunk
\* whose recipe is apply(lhs, rhs), and for every lhs changes no existing
\* thunk (rhs among them); evalCounter moves only when evaluate finds a
\* thunk without cache and an existing thunk changes only when its recipe
\* has returned, so no construction forces anything; the recipe of the new
\* thunk, once it runs, evaluates lhs first.
C5_ApplyIsLazy ==
    /\ [][<<heap, regs, defs>>' # <<heap, regs, defs>> =>
            \A lhs \in Held(heap', regs', defs'), rhs \in Held(heap', regs', defs') :
                /\ KeepsThunks(lhs, rhs, heap')
                /\ lhs.kind = "thunk" /\ heap'[lhs.num].cache = NoCache
                   /\ Len(heap') < MaxThunks
                     => MakesApplyThunk(lhs, rhs, heap')]_vars
    /\ [](\A i \in DOMAIN stack :
            stack[i].func.op = "apply" /\ stack[i].pc = 1
              => stack[i].callee = stack[i].func.args[1])
    /\ [][/\ evalCounter' # evalCounter =>
                ctl.mode = "eval" /\ ctl.e.kind = "thunk" /\ ctl'.mode = "run"
          /\ \A t \in Thunks :
                heap'[t] # heap[t] => ctl.mode = "value" /\ Top.t = t]_vars

\* C5, the case: parseExpr has applied a thunk that is not resolved and got
\* a new thunk; nothing has been forced.
C5_AppliedUnresolved ==
    /\ ctl = Idle
    /\ last.op = "parseExpr"
    /\ last.e.kind = "thunk"
    /\ born[last.e.num].op = "apply"
    /\ born[last.e.num].args[1].kind = "thunk"
    /\ born[last.e.num].args[1].num < last.e.num
    /\ heap[born[last.e.num].args[1].num].cache = NoCache
    /\ runs[born[last.e.num].args[1].num] = 0
    /\ evalCounter = 0
\* The innermost recipe is apply(lhs, rhs) and evaluate(lhs) has returned.
ApplyHasLhs ==
    ctl.mode = "ret" /\ stack # <<>> /\ Top.func.op = "apply" /\ Top.pc = 1

\* The machine goes on with the constructor result r: evaluates what it
\* returned, or throws what it threw.
GoesOnWith(r) ==
    /\ heap' = r.heap
    /\ ctl' = IF r.err = "" THEN CallEval(r.e) ELSE Thrown(r.err)

\* C6: for every pair cons(a, b) and every f, makeApply(cons(a, b), f) is
\* makeApply(f, a, b), a before b; an apply recipe whose lhs has evaluated
\* to cons(a, b) goes on with evaluate(makeApply(rhs, a, b)); and on the
\* pair cons(1, 2) the selector t gets 1 and cdr gets 2.
C6_PairDestructuring ==
    /\ [][<<heap, regs, defs>>' # <<heap, regs, defs>> =>
            \A p \in Held(heap', regs', defs'), f \in Held(heap', regs', defs') :
                p.kind = "cons" =>
                    makeApply(<<p, f>>, heap')
                      = makeApply(<<f, p.args[1], p.args[2]>>, heap')]_vars
    /\ [][ApplyHasLhs /\ ctl.e.kind = "cons" =>
            GoesOnWith(makeApply(<<Top.func.args[2], ctl.e.args[1], ctl.e.args[2]>>,
                                 heap))]_vars
    /\ [](EvaluateReturned /\ code = <<Line("g", <<"ap", "ap", "cons", "1", "2">>)>>
            => /\ query = <<"ap", "g", "t">> => last.e = makeNumber(1)
               /\ query = <<"ap", "cdr", "g">> => last.e = makeNumber(2))

\* C6, the case: g was a reference thunk when ap g t was parsed; the apply
\* thunk has been forced, g evaluated to cons(1, 2) and t got its car.
C6_PairThroughThunk ==
    /\ EvaluateReturned
    /\ query = <<"ap", "g", "t">>
    /\ last.arg.kind = "thunk"
    /\ born[last.arg.num].op = "apply"
    /\ heap[born[last.arg.num].args[1].num].cache = makeCons(makeNumber(1), makeNumber(2))
    /\ last.e = makeNumber(1)

\* C7: for every x, a, b, makeApply(nil, x) is the 'true' selector and
\* makeApply(nil, x, a, b) is a; makeApply(t, a, b) is a and
\* makeApply(f, a, b) is b; each leaves the heap as it is.  An apply
\* recipe whose lhs has evaluated to nil returns the 'true' selector, and
\* one whose lhs is a selector holding a goes on with a for t and with its
\* rhs for f.  With g = nil, ap ap ap g h 1 h is 1 and no reference to h
\* has been forced.
C7_NilIsTrue ==
    /\ [][<<heap, regs, defs>>' # <<heap, regs, defs>> =>
            \A a \in Held(heap', regs', defs'), b \in Held(heap', regs', defs') :
                /\ makeApply(<<makeNil, a>>, heap') = Ret(theTrue, heap')
                /\ makeApply(<<makeNil, b, a, b>>, heap') = Ret(a, heap')
                /\ makeApply(<<makeNil, a, a, b>>, heap') = Ret(a, heap')
                /\ makeApply(<<theTrue, a, b>>, heap') = Ret(a, heap')
                /\ makeApply(<<theFalse, a, b>>, heap') = Ret(b, heap')]_vars
    /\ [][ApplyHasLhs /\ ctl.e.kind = "nil" =>
            heap' = heap /\ ctl' = RecipeValue(theTrue)]_vars
    /\ [][ApplyHasLhs /\ ctl.e.kind = "func" /\ ctl.e.name \in {"t", "f"}
          /\ Len(ctl.e.args) = 1 =>
            /\ heap' = heap
            /\ ctl' = CallEval(IF ctl.e.name = "t" THEN ctl.e.args[1]
                               ELSE Top.func.args[2])]_vars
    /\ [](EvaluateReturned /\ code = <<Line("g", <<"nil">>)>>
          /\ query = <<"ap", "ap", "ap", "g", "h", "1", "h">>
            => /\ last.e = makeNumber(1)
               /\ \A t \in Thunks : born[t].name = "h" => runs[t] = 0)

\* C7, the case: g was a reference thunk when ap ap ap g h 1 h was parsed;
\* forced, g evaluated to nil and the selector picked 1; the two
\* references to h are still there, unforced.
C7_NilSelectedFirst ==
    /\ EvaluateReturned
    /\ query = <<"ap", "ap", "ap", "g", "h", "1", "h">>
    /\ last.arg.kind = "thunk"
    /\ last.e = makeNumber(1)
    /\ \E t \in Thunks : born[t].op = "apply" /\ heap[t].cache = theTrue
    /\ \E t \in Thunks : born[t].name = "h" /\ heap[t].func # NoFunc

\* C8: for every rhs, makeApply(n, rhs) on a number n throws 'Invalid
\* function call: number'; an apply recipe whose lhs has evaluated to a
\* number throws it and changes nothing; and an apply thunk whose lhs is a
\* thunk cached with a number never has a cache of its own.
C8_NumberNotApplicable ==
    /\ [][<<heap, regs, defs>>' # <<heap, regs, defs>> =>
            \A n \in {0 - 1, 0, 1, 2}, rhs \in Held(heap', regs', defs') :
                makeApply(<<makeNumber(n), rhs>>, heap')
                  = Throw("Invalid function call: number", heap')]_vars
    /\ [][ApplyHasLhs /\ ctl.e.kind = "number" =>
            /\ ctl' = Thrown("Invalid function call: number")
            /\ UNCHANGED <<heap, stack, evalCounter>>]_vars
    /\ [](\A t \in Thunks :
            (/\ born[t].op = "apply"
             /\ born[t].args[1].kind = "thunk"
             /\ heap[born[t].args[1].num].cache.kind = "number")
              => heap[t].cache = NoCache)

\* C8, the case: the caller forced ap g t where g was a reference thunk; g
\* evaluated to a number and evaluate threw.
C8_AppliedNumberThunk ==
    /\ EvaluateThrew
    /\ last.err = "Invalid function call: number"
    /\ born[last.arg.num].op = "apply"
    /\ born[last.arg.num].args[1].kind = "thunk"
    /\ heap[born[last.arg.num].args[1].num].cache.kind = "number"
    /\ runs[last.arg.num] = 1
\* The names the properties look up: those of the programs (t is also a
\* name of the standard environment) and one that nothing binds.
Names == {"g", "h", "t", "zz"}

\* The entries of the environment env (in the environments es) that bind name.
Binding(es, env, name) ==
    {i \in DOMAIN es[env].defs : es[env].defs[i].name = name}

\* The binding of name nearest to env: its own, else its parent's; Null
\* when neither binds it.  (No environment of the model has a grandparent.)
Nearest(es, env, name) ==
    IF Binding(es, env, name) # {}
    THEN es[env].defs[CHOOSE i \in Binding(es, env, name) : TRUE].expr
    ELSE IF es[env].parent # 0 /\ Binding(es, es[env].parent, name) # {}
    THEN es[es[env].parent].defs[CHOOSE i \in Binding(es, es[env].parent, name) : TRUE].expr
    ELSE Null

\* C9: define(name, expr) on an environment throws 'Duplicated definition'
\* exactly when that environment binds name already, and then changes no
\* environment; otherwise it adds the binding to that environment alone,
\* also when the parent binds the name.  In every reachable state no
\* environment binds a name twice and lookup(name) is the binding of the
\* nearest environment on the parent chain that binds it, null when none
\* does (stated where the environments are new: at the start and after
\* each define).
C9_DefineAndLookup ==
    /\ [][last'.op = "define" /\ <<envs, last>>' # <<envs, last>> =>
            IF Binding(envs, last'.env, last'.name) # {}
            THEN /\ last'.err = "Duplicated definition: " \o last'.name
                 /\ envs' = envs
            ELSE /\ last'.err = ""
                 /\ envs' = [envs EXCEPT ![last'.env].defs =
                               Append(@, [name |-> last'.name, expr |-> last'.arg])]
                 /\ lookup(envs', last'.env, last'.name) = last'.arg]_vars
    /\ [](ctl = Idle /\ last.op \in {"none", "define"} =>
            \A env \in DOMAIN envs, name \in Names :
                /\ Cardinality(Binding(envs, env, name)) <= 1
                /\ envs[env].parent # 0 => envs[envs[env].parent].parent = 0
                /\ lookup(envs, env, name) = Nearest(envs, env, name))

\* C9, the case: the program's environment binds t to 1 over the standard
\* environment's t, and a second define of t in it has thrown.
C9_ShadowedThenDuplicate ==
    /\ last.op = "define"
    /\ last.env = UserEnvId
    /\ last.err = "Duplicated definition: t"
    /\ lookup(envs, UserEnvId, "t") = makeNumber(1)
    /\ lookup(envs, StdEnvId, "t") = theTrue

\* C10: whenever the caller may call it, makeReference does not throw: it
\* returns the binding when the name resolves and else a new thunk with
\* the recipe of (env, name), whatever the heap and the bindings.  That
\* recipe looks the name up when it runs: it throws 'Undefined reference
\* <name>' exactly when the name is unbound at that moment, and else
\* evaluates the binding it found and returns its value.  So an evaluate
\* request that threw 'Undefined reference <name>' left the name unbound.
C10_ReferenceDeferred ==
    /\ [](ctl = Idle =>
            \A env \in DOMAIN envs, name \in Names :
                LET Made(bound) ==
                        IF bound # Null THEN Ret(bound, heap)
                        ELSE makeThunk(RefRecipe(env, name), heap)
                IN  makeReference(envs, env, name, heap)
                      = Made(Nearest(envs, env, name)))
    /\ [][ctl.mode = "run" /\ Top.func.op = "ref" =>
            IF Nearest(envs, Top.func.env, Top.func.name) = Null
            THEN ctl' = Thrown("Undefined reference " \o Top.func.name)
            ELSE ctl' = CallEval(Nearest(envs, Top.func.env, Top.func.name))]_vars
    /\ [](ctl.mode = "value" /\ Top.func.op = "ref" =>
            /\ Top.callee = Nearest(envs, Top.func.env, Top.func.name)
            /\ ctl.e = IF Top.callee.kind = "thunk"
                       THEN heap[Top.callee.num].cache ELSE Top.callee)
    /\ [](EvaluateThrew =>
            \A name \in Names :
                last.err = "Undefined reference " \o name =>
                    Nearest(envs, UserEnvId, name) = Null)

\* C10, the case: the reference to g was made while g was unbound, forced
\* once too early ('Undefined reference g'), and forced again after g was
\* defined: it has returned the value of g's binding.
C10_ForwardReferenceForced ==
    /\ EvaluateReturned
    /\ last.arg.kind = "thunk"
    /\ born[last.arg.num] = RefRecipe(UserEnvId, "g")
    /\ runs[last.arg.num] = 2
    /\ done[last.arg.num] = 1
    /\ Nearest(envs, UserEnvId, "g") # Null
    /\ last.e = heap[last.arg.num].cache

\* The caller's last call was op and it has returned.
CallReturned(op) == ctl = Idle /\ last.op = op /\ last.err = ""

\* The caller's last call was op and it has thrown.
CallThrew(op) == ctl = Idle /\ last.op = op /\ last.err \notin {"", "(running)"}

\* isNil holds the evaluated value and is about to act on it.
IsNilHasValue(pc) ==
    /\ stack # <<>>
    /\ Top.func.op = "isNil"
    /\ Top.pc = pc
    /\ ctl.mode = "ret"

\* The function v behaves as nil: applied to any argument it returns the
\* true selector.
NilLike(v) ==
    /\ v.kind = "func"
    /\ \A x \in {makeNumber(0), makeNil, theBool, makeBoolean(TRUE), makeBoolean(FALSE)} :
           CallFunc(v, x, heap) = Ret(makeBoolean(TRUE), heap)

\* The function v behaves as the pair of a and b: v(s) = s a b.
PairLike(v) ==
    /\ v.kind = "func"
    /\ \E a, b \in {makeNumber(1), makeNumber(2), makeNil} :
           \A s \in {theBool, makeBoolean(TRUE), makeBoolean(FALSE)} :
               CallFunc(v, s, heap) = makeApply(<<s, a, b>>, heap)

\* C11: isNil answers true for the tagged nil and for every function that
\* behaves as nil, false for every tagged pair, every number and every
\* function that behaves as a pair; the probe evaluates to 123 for the
\* nil-like function and to 456 for the pair-like one.  On the programs
\* of CodesData, asked for a g that is defined, isNil(g) is true for nil and
\* for `t t`, false for the lists, the numbers and the pair-like function.
C11_IsNilDecides ==
    /\ [][/\ (IsNilHasValue(1) /\ ctl.e.kind = "nil") => ctl' = Answered(TRUE)
          /\ (IsNilHasValue(1) /\ ctl.e.kind \in {"cons", "number"}) => ctl' = Answered(FALSE)
          /\ (IsNilHasValue(1) /\ (NilLike(ctl.e) \/ PairLike(ctl.e))) =>
                 (ctl'.mode = "eval" /\ Top'.x = ctl.e)
          /\ (IsNilHasValue(2) /\ NilLike(Top.x)) =>
                 (ctl.e = makeNumber(123) /\ ctl' = Answered(TRUE))
          /\ (IsNilHasValue(2) /\ PairLike(Top.x)) =>
                 (ctl.e = makeNumber(456) /\ ctl' = Answered(FALSE))]_vars
    /\ [](/\ (/\ last.op = "isNil" /\ query = <<"g">>
              /\ last.err \notin {"(running)", "Undefined reference g"}
              /\ code \in { <<Line("g", <<"nil">>)>>, <<Line("g", <<"ap", "t", "t">>)>> })
             => (last.err = "" /\ last.e = Boolean(TRUE))
          /\ (/\ last.op = "isNil" /\ query = <<"g">>
              /\ last.err \notin {"(running)", "Undefined reference g"}
              /\ code \in { <<Line("g", <<"ap", "ap", "cons", "ap", "ap", "cons", "1", "nil",
                                          "ap", "ap", "cons", "2", "0">>)>>,
                            <<Line("g", <<"ap", "ap", "cons", "h", "nil">>),
                              Line("h", <<"ap", "inc", "0">>)>>,
                            <<Line("g", <<"ap", "ap", "c", "ap", "ap", "c", "i", "1", "2">>)>>,
                            <<Line("g", <<"7">>)>>,
                            <<Line("g", <<"-7">>)>> })
             => (last.err = "" /\ last.e = Boolean(FALSE)))

\* isNil returned true for the nil-like function `t t`, which it reached
\* through a thunk and decided by the probe.
C11_NilLikeFunctionProbed ==
    /\ CallReturned("isNil")
    /\ last.arg.kind = "thunk"
    /\ heap[last.arg.num].cache = FuncOf("t", <<makeBoolean(TRUE)>>)
    /\ NilLike(heap[last.arg.num].cache)
    /\ last.e = Boolean(TRUE)
    /\ evalCounter = snap.evalCounter + 1

\* The value of the expression e as far as it is known: a thunk's cache.
ValueOf(e) == IF e.kind = "thunk" THEN heap[e.num].cache ELSE e

\* The function v is neither nil-like nor pair-like.
Ambiguous(v) == v.kind = "func" /\ ~NilLike(v) /\ ~PairLike(v)

\* C12, as stated: for a function that is neither nil-like nor pair-like
\* isNil fails, and always with 'Not nil/cons'.
C12_AlwaysNotNilCons ==
    (/\ ctl = Idle
     /\ last.op = "isNil"
     /\ last.err # "(running)"
     /\ Ambiguous(ValueOf(last.arg)))
    => last.err = "Not nil/cons"

\* C12, amended: for a function that is neither nil-like nor pair-like
\* isNil returns no boolean.  It throws 'Not nil/cons' when the probe
\* evaluates to a value that is not a sentinel, and throws nothing else of
\* its own; an Error raised while the probe is built or evaluated passes
\* through isNil unchanged.  So isNil(g) fails with 'Not nil/cons' for
\* g = t and g = t (t (t 7)), with 'Invalid function call: number' for
\* g = t 1 and with 'inc: wrong types: func' for g = inc.
C12_AmbiguousNeverAnswered ==
    /\ [][/\ (IsNilHasValue(2) /\ ctl.e \notin {makeNumber(123), makeNumber(456)})
                => ctl' = Thrown("Not nil/cons")
          /\ (IsNilHasValue(2) /\ ctl.e \in {makeNumber(123), makeNumber(456)})
                => ctl'.mode = "bool"
          /\ (IsNilHasValue(1) /\ ctl'.mode = "throw")
                => (/\ ctl.e.kind = "func"
                    /\ ctl'.err = isNilSlowProbe(ctl.e, heap).err
                    /\ ctl'.err # "Not nil/cons")
          /\ (stack # <<>> /\ Top.func.op = "isNil" /\ ctl.mode = "throw")
                => (ctl' = ctl /\ stack' = Pop)]_vars
    /\ [](/\ (/\ ctl = Idle
              /\ last.op = "isNil"
              /\ last.err # "(running)"
              /\ Ambiguous(ValueOf(last.arg)))
             => last.err # ""
          /\ (/\ last.op = "isNil" /\ query = <<"g">>
              /\ last.err \notin {"(running)", "Undefined reference g"})
             => (/\ code \in { <<Line("g", <<"t">>)>>,
                               <<Line("g", <<"ap", "t", "ap", "t", "ap", "t", "7">>)>> }
                      => last.err = "Not nil/cons"
                 /\ code = <<Line("g", <<"ap", "t", "1">>)>>
                      => last.err = "Invalid function call: number"
                 /\ code = <<Line("g", <<"inc">>)>>
                      => last.err = "inc: wrong types: func"))

\* isNil was asked about the function `t 1`, reached through a thunk, and
\* failed while building the probe, with the Error of applying a number.
C12_ProbeAppliedNumber ==
    /\ CallThrew("isNil")
    /\ last.arg.kind = "thunk"
    /\ ValueOf(last.arg) = FuncOf("t", <<makeNumber(1)>>)
    /\ Ambiguous(ValueOf(last.arg))
    /\ last.err = "Invalid function call: number"

\* The expression e is a finite value built from numbers, nil and pairs,
\* every thunk on the way forced.
RECURSIVE Plain(_)
Plain(e) ==
    CASE ValueOf(e).kind \in {"number", "nil"} -> TRUE
      [] ValueOf(e).kind = "cons" -> Plain(ValueOf(e).args[1]) /\ Plain(ValueOf(e).args[2])
      [] OTHER -> FALSE

\* The reference canonicalization of a plain value: a number is a leaf, a
\* pair in front of a list lengthens the list, a pair in front of anything
\* else is a Pair node.
RECURSIVE Reference(_)
Reference(e) ==
    LET Node(car, cdr) ==
            IF cdr.name = "list" THEN ListData(<<car>> \o cdr.args)
            ELSE ConsData(car, cdr)
    IN  CASE ValueOf(e).kind = "number" -> NumberData(ValueOf(e).num)
          [] ValueOf(e).kind = "nil" -> ListData(<<>>)
          [] ValueOf(e).kind = "cons" ->
                 Node(Reference(ValueOf(e).args[1]), Reference(ValueOf(e).args[2]))

\* C13: on a finite value built from numbers, nil and pairs, possibly
\* behind thunks, exprToStaticData returns the reference canonicalization:
\* a number leaf for a number, the List of the k canonicalized firsts for a
\* nil-terminated chain of k >= 0 pairs ([1, -1, 0] gives List[1, -1, 0]),
\* and k right-nested Pair nodes with the leaf n innermost for a chain of
\* k >= 1 pairs that ends in the number n.
C13_Canonicalizes ==
    /\ (CallReturned("exprToStaticData") /\ Plain(last.arg))
          => last.e = Reference(last.arg)
    /\ (CallReturned("exprToStaticData") /\ ValueOf(last.arg).kind = "number")
          => last.e = NumberData(ValueOf(last.arg).num)
    /\ (CallReturned("exprToStaticData") /\ query = <<"g">>)
          => (/\ code = <<Line("g", <<"ap", "ap", "cons", "1", "ap", "ap", "cons", "-1",
                                      "ap", "ap", "cons", "0", "nil">>)>>
                   => last.e = ListData(<<NumberData(1), NumberData(0 - 1), NumberData(0)>>)
              /\ code = <<Line("g", <<"ap", "ap", "cons", "ap", "ap", "cons", "1", "nil",
                                      "ap", "ap", "cons", "2", "0">>)>>
                   => last.e = ConsData(ListData(<<NumberData(1)>>),
                                        ConsData(NumberData(2), NumberData(0)))
              /\ code = <<Line("g", <<"ap", "ap", "cons", "h", "nil">>),
                          Line("h", <<"ap", "inc", "0">>)>>
                   => last.e = ListData(<<NumberData(1)>>)
              /\ code = <<Line("g", <<"nil">>)>> => last.e = ListData(<<>>)
              /\ code = <<Line("g", <<"-7">>)>> => last.e = NumberData(0 - 7))

\* exprToStaticData returned for a chain of two pairs that ends in the
\* number 0 and whose first element is itself a list, reached through a
\* thunk: two nested Pair nodes, the leaf 0 innermost.
C13_ImproperChainConverted ==
    /\ CallReturned("exprToStaticData")
    /\ last.arg.kind = "thunk"
    /\ Plain(last.arg)
    /\ ValueOf(last.arg) = makeCons(makeCons(makeNumber(1), makeNil),
                                    makeCons(makeNumber(2), makeNumber(0)))
    /\ last.e = ConsData(ListData(<<NumberData(1)>>), ConsData(NumberData(2), NumberData(0)))

\* A binary arithmetic recipe holds both operands, both numbers, and is
\* about to compute.
BinaryHasNumbers(op) ==
    /\ stack # <<>>
    /\ Top.func.op = op
    /\ Top.pc = 2
    /\ ctl.mode = "ret"
    /\ Top.x.kind = "number"
    /\ ctl.e.kind = "number"

\* q is x / y truncated toward zero: the remainder is smaller than the
\* divisor in magnitude and, unless zero, has the sign of the dividend.
Truncated(x, y, q) ==
    LET r == x - q * y
        Abs(i) == IF i < 0 THEN 0 - i ELSE i
    IN  Abs(r) < Abs(y) /\ (r = 0 \/ (r < 0) = (x < 0))

\* The outcome of one evaluate request on the query, by program.
QueryGives(c, q, v) ==
    (EvaluateReturned /\ code = <<Line("g", <<c>>)>> /\ query = q) => last.e = v

\* C14: add x y is x + y; div x y, y # 0, is the quotient truncated toward
\* zero (7 / 2 = 3, -7 / 2 = -3); eq x y is the true selector when x = y
\* and the false selector otherwise.
C14_Arithmetic ==
    /\ [][/\ BinaryHasNumbers("add")
                => ctl' = RecipeValue(makeNumber(Top.x.num + ctl.e.num))
          /\ (BinaryHasNumbers("div") /\ ctl.e.num # 0)
                => (/\ ctl'.mode = "value"
                    /\ ctl'.e.kind = "number"
                    /\ Truncated(Top.x.num, ctl.e.num, ctl'.e.num))
          /\ BinaryHasNumbers("eq")
                => ctl' = RecipeValue(IF Top.x.num = ctl.e.num THEN theTrue ELSE theFalse)]_vars
    /\ [](last.op = "none" =>
            \A x, y \in (0 - 8)..8 :
               /\ Binary("add", makeNumber(x), makeNumber(y)) = RecipeValue(makeNumber(x + y))
               /\ y # 0 =>
                     /\ Binary("div", makeNumber(x), makeNumber(y)).mode = "value"
                     /\ Truncated(x, y, Binary("div", makeNumber(x), makeNumber(y)).e.num)
               /\ Binary("eq", makeNumber(x), makeNumber(y))
                     = RecipeValue(IF x = y THEN theTrue ELSE theFalse))
    /\ [](/\ QueryGives("7", <<"ap", "ap", "div", "g", "2">>, makeNumber(3))
          /\ QueryGives("-7", <<"ap", "ap", "div", "g", "2">>, makeNumber(0 - 3))
          /\ QueryGives("7", <<"ap", "ap", "div", "g", "-1">>, makeNumber(0 - 7))
          /\ QueryGives("-7", <<"ap", "ap", "div", "g", "-1">>, makeNumber(7))
          /\ QueryGives("7", <<"ap", "ap", "add", "g", "2">>, makeNumber(9))
          /\ QueryGives("-7", <<"ap", "ap", "add", "g", "2">>, makeNumber(0 - 5))
          /\ QueryGives("7", <<"ap", "ap", "eq", "g", "7">>, theTrue)
          /\ QueryGives("-7", <<"ap", "ap", "eq", "g", "7">>, theFalse)
          /\ QueryGives("-7", <<"ap", "ap", "ap", "s", "add", "inc", "g">>, makeNumber(0 - 13)))

\* div -7 2 was evaluated, its dividend behind a reference thunk, and gave
\* -3: the quotient went toward zero, not down to -4.
C14_NegativeQuotient ==
    /\ EvaluateReturned
    /\ code = <<Line("g", <<"-7">>)>>
    /\ query = <<"ap", "ap", "div", "g", "2">>
    /\ last.e = makeNumber(0 - 3)
    /\ born[last.arg.num].op = "div"
    /\ \E t \in Thunks : born[t].op = "ref" /\ heap[t].cache = makeNumber(0 - 7)

\* The thunks that made the transition from recipe to cache.
Cached == {t \in Thunks : heap[t].cache # NoCache}

\* f[1] + ... + f[n].
RECURSIVE Total(_, _)
Total(f, n) == IF n = 0 THEN 0 ELSE f[n] + Total(f, n - 1)

Unforced(t) == heap[t] = [func |-> born[t], cache |-> NoCache] /\ born[t] # NoFunc

\* The thunks a recipe of which ran during the caller's last request.
RanInRequest == {t \in Thunks : runs[t] > snap.runs[t]}

\* C16: an Error raised in a recipe leaves every enclosing evaluate call
\* and reaches the caller as it was raised; the thunk whose recipe raised
\* it and every thunk whose recipe was running stay with their recipe and
\* without a cache, none of them caches a value and none is left without
\* both.  (1) A thunk whose recipe is running is unforced.  (2) Raising an
\* Error changes no thunk.  (3) While the Error propagates, each step
\* leaves one call, the heap and the counter stay as they are, and the
\* caller receives the message that was raised.  (4) After a failed
\* request every thunk that ran in it is either unforced or was cached by
\* the one invocation of its recipe that returned; no thunk is broken.
C16_ErrorLeavesThunksUnforced ==
    /\ [](\A i \in DOMAIN stack : stack[i].t # 0 => Unforced(stack[i].t))
    /\ [][(ctl.mode # "throw" /\ ctl'.mode = "throw")
             => \A t \in Thunks : heap'[t] = heap[t]]_vars
    /\ [][ctl.mode = "throw"
             => /\ heap' = heap
                /\ evalCounter' = evalCounter
                /\ \/ stack # <<>> /\ stack' = Pop /\ ctl' = ctl
                   \/ stack = <<>> /\ ctl' = Idle /\ last'.err = ctl.err]_vars
    /\ []((ctl = Idle /\ last.op \in {"evaluate", "isNil", "exprToStaticData"}
                      /\ last.err \notin {"", "(running)"})
             => /\ \A t \in RanInRequest :
                      \/ Unforced(t)
                      \/ /\ t \in Cached
                         /\ snap.heap[t].cache = NoCache
                         /\ runs[t] = snap.runs[t] + 1
                         /\ done[t] = 1
                /\ \A t \in Thunks : heap[t].func = NoFunc => t \in Cached)

\* A request failed while three recipes were running, one inside the
\* other: the Error of the innermost reached the caller and all three
\* thunks are unforced, ready to run again.
C16_NestedRecipesUnwound ==
    /\ EvaluateThrew
    /\ last.err = "inc: wrong types: nil"
    /\ Cardinality({t \in RanInRequest : Unforced(t)}) >= 3
    /\ \E t \in RanInRequest : born[t].op = "inc" /\ Unforced(t)
    /\ Unforced(last.arg.num)

=============================================================================
